---- MODULE Spec2Model ----
(***************************************************************************)
(* Model of jsoninput.InputHandler (src/src/jsoninput/input_handler.py).   *)
(*                                                                         *)
(* JSON values are records [type, members]: an object carries its members  *)
(* as a function from key to value, an array carries its items keyed by    *)
(* their index written as a string, and Python's None is the value of      *)
(* type "null".  Paths are sequences of components; an absolute path       *)
(* starts with the component "/".                                          *)
(***************************************************************************)
EXTENDS Integers, Sequences, FiniteSets, TLC

\* ------------------------------------------------------------------ bounds
\* Longest path list handed to one load_input_files call.
MaxPaths == 2
\* A load is only started when it cannot take input_dicts past this length.
MaxRecords == 3

\* --------------------------------------------------------------- JSON values
EmptyMembers == [k \in {} |-> "v"]

\* Python's None: the class attribute `schema = None`.
NoneValue == [type |-> "null", members |-> EmptyMembers]

Obj(m) == [type |-> "object", members |-> m]

\* Python truthiness of a parsed JSON value (None, {} and [] are falsy).
Truthy(v) == v.type # "null" /\ DOMAIN v.members # {}

\* ------------------------------------------------------------------- paths
Cwd == <<"/", "work">>

IsAbsolute(p) == Len(p) > 0 /\ p[1] = "/"

\* pathlib.Path(p).resolve(): made absolute against the working directory,
\* "." components dropped.
Resolve(p) == SelectSeq(IF IsAbsolute(p) THEN p ELSE Cwd \o p, LAMBDA c : c # ".")

\* ------------------------------------------------------------- file system
\* The files on disk, keyed by absolute path.  kind "json" parses, kind
\* "garbage" is not JSON text.
GoodDoc == Obj([name |-> "v"])
OtherDoc == Obj([name |-> "w"])
BadDoc == Obj([title |-> "v"])
ArrayDoc == [type |-> "array", members |-> [k \in {"0"} |-> "v"]]

SchemaReqName == Obj([type |-> "object", required |-> {"name"}])
SchemaReqPath == Obj([required |-> {"path"}])
SchemaClosed == Obj([properties |-> {"name"}, additionalProperties |-> FALSE])
SchemaEmpty == Obj(EmptyMembers)

File(v) == [kind |-> "json", value |-> v]
Garbage == [kind |-> "garbage", value |-> NoneValue]

Disk ==
    ( <<"/", "work", "good.json">> :> File(GoodDoc) )
 @@ ( <<"/", "work", "other.json">> :> File(OtherDoc) )
 @@ ( <<"/", "work", "bad.json">> :> File(BadDoc) )
 @@ ( <<"/", "work", "list.json">> :> File(ArrayDoc) )
 @@ ( <<"/", "work", "broken.json">> :> Garbage )
 @@ ( <<"/", "work", "schema.json">> :> File(SchemaReqName) )
 @@ ( <<"/", "work", "closed.json">> :> File(SchemaClosed) )
 @@ ( <<"/", "work", "empty.json">> :> File(SchemaEmpty) )

\* Paths a caller passes to load_input_files.
InputPaths ==
    { <<"good.json">>, <<"/", "work", "other.json">>, <<".", "bad.json">>,
      <<"list.json">>, <<"broken.json">>, <<"missing.json">> }

\* Paths a caller passes to the constructor; <<>> is "no path given".
NoPath == <<>>
SchemaPaths == { NoPath, <<".", "schema.json">>, <<"empty.json">>, <<"missing.json">> }

\* More of them, for the runs that make single-file loads only.
MoreSchemaPaths == SchemaPaths \cup { <<"closed.json">>, <<"broken.json">> }

\* open(path): the file exists or FileNotFoundError.
Exists(p) == Resolve(p) \in DOMAIN Disk

\* open(path) followed by json.load(file).
JsonLoad(p) ==
    IF ~Exists(p) THEN [outcome |-> "FileNotFoundError", value |-> NoneValue]
    ELSE IF Disk[Resolve(p)].kind # "json"
         THEN [outcome |-> "JSONDecodeError", value |-> NoneValue]
         ELSE [outcome |-> "return", value |-> Disk[Resolve(p)].value]

\* --------------------------------------------------------------- handlers
Handlers == {"A", "B"}

VARIABLES
    constructed,   \* the InputHandler instances that exist
    schema,        \* schema[h]: what `self.schema` evaluates to on instance h
    input_dicts,   \* the list bound to the class attribute InputHandler.input_dicts
    last           \* the most recent call: its arguments and what the caller observed

vars == <<constructed, schema, input_dicts, last>>

\* `self.input_dicts` on instance h.  No code path assigns the attribute on
\* an instance, so the lookup always falls through to the class attribute.
SelfInputDicts(h) == input_dicts

NoCall ==
    [ op |-> "none", h |-> "-", outcome |-> "return", value |-> 0, flag |-> FALSE,
      paths |-> <<>>, check_first |-> FALSE, failed_at |-> 0, opened |-> <<>>,
      before |-> <<>>, arg |-> NoneValue, arg_schema |-> NoneValue,
      raise_failure |-> FALSE ]

Init ==
    /\ constructed = {}
    /\ schema = [h \in Handlers |-> NoneValue]
    /\ input_dicts = <<>>
    /\ last = NoCall

\* ------------------------------------------------------- schema validation
\* The part of JSON Schema the schemas on Disk use: "type", "required",
\* "properties" and "additionalProperties".  The last three constrain
\* objects only.
TypeOk(instance, s) ==
    "type" \in DOMAIN s.members => instance.type = s.members.type

RequiredOk(instance, s) ==
    ("required" \in DOMAIN s.members /\ instance.type = "object")
        => s.members.required \subseteq DOMAIN instance.members

AdditionalOk(instance, s) ==
    ( /\ "additionalProperties" \in DOMAIN s.members
      /\ s.members.additionalProperties = FALSE
      /\ instance.type = "object" )
        => DOMAIN instance.members \subseteq
              (IF "properties" \in DOMAIN s.members THEN s.members.properties ELSE {})

\* jsonschema.validate(instance, schema): returns, or raises ValidationError.
JsonschemaValidate(instance, s) ==
    IF TypeOk(instance, s) /\ RequiredOk(instance, s) /\ AdditionalOk(instance, s)
    THEN "return"
    ELSE "ValidationError"

Returned(v) == [outcome |-> "return", value |-> v]
Raised(e) == [outcome |-> e, value |-> FALSE]

\* validate_dict_against_schema as it would be if the error were always
\* swallowed.
ValidateIgnoringRaiseFailure(input_dict, s, raise_failure) ==
    IF JsonschemaValidate(input_dict, s) = "return"
    THEN Returned(TRUE)
    ELSE Returned(FALSE)

\* InputHandler.validate_dict_against_schema (static).
ValidateDictAgainstSchema(input_dict, s, raise_failure) ==
    IF JsonschemaValidate(input_dict, s) = "return"
    THEN Returned(TRUE)
    ELSE IF raise_failure THEN Raised("ValidationError") ELSE Returned(FALSE)

\* check_input as it would be if a handler without a schema let every
\* record pass.
CheckInputPassingWithoutSchema(h, input_dict, raise_failure) ==
    IF Truthy(schema[h])
    THEN ValidateDictAgainstSchema(input_dict, schema[h], raise_failure)
    ELSE Returned(TRUE)

\* InputHandler.check_input.
CheckInput(h, input_dict, raise_failure) ==
    IF Truthy(schema[h])
    THEN ValidateDictAgainstSchema(input_dict, schema[h], raise_failure)
    ELSE Returned(FALSE)

\* InputHandler.load_schema (static): json.load, then `assert schema`.
LoadSchema(schema_file_path) ==
    LET r == JsonLoad(schema_file_path) IN
    IF r.outcome # "return" THEN r
    ELSE IF ~Truthy(r.value) THEN [outcome |-> "AssertionError", value |-> NoneValue]
    ELSE r

\* ------------------------------------------------------- load_input_files
\* input_dict["path"] = pathlib.Path(file_path).resolve(strict=True)
InjectPath(input_dict, file_path) ==
    Obj([k \in DOMAIN input_dict.members \cup {"path"} |->
            IF k = "path" THEN Resolve(file_path) ELSE input_dict.members[k]])

Skip(outcome) == [outcome |-> outcome, append |-> FALSE, record |-> NoneValue]

\* The loop body as it would be if check_first were ignored and every record
\* checked.
LoadFileAlwaysChecking(h, file_path, check_first) ==
    LET r == JsonLoad(file_path) IN
    IF r.outcome # "return" THEN Skip(r.outcome)
    ELSE IF r.value.type # "object" THEN Skip("TypeError")
    ELSE LET input_dict == InjectPath(r.value, file_path)
             c == CheckInput(h, input_dict, TRUE)
         IN  IF c.outcome # "return" THEN Skip(c.outcome)
             ELSE [outcome |-> "return", append |-> c.value, record |-> input_dict]

\* The loop body as it would be if the result of the check were dropped and
\* every parsed record appended.
LoadFileAlwaysKeeping(h, file_path, check_first) ==
    LET r == JsonLoad(file_path) IN
    IF r.outcome # "return" THEN Skip(r.outcome)
    ELSE IF r.value.type # "object" THEN Skip("TypeError")
    ELSE [outcome |-> "return", append |-> TRUE,
          record |-> InjectPath(r.value, file_path)]

\* One iteration of the loop of load_input_files: open, parse, inject the
\* path, and decide whether the record is appended.  Item assignment on a
\* parsed value that is not a dict raises TypeError.  check_input is only
\* called when check_first holds (`and` short-circuits).
LoadFile(h, file_path, check_first) ==
    LET r == JsonLoad(file_path) IN
    IF r.outcome # "return" THEN Skip(r.outcome)
    ELSE IF r.value.type # "object" THEN Skip("TypeError")
    ELSE LET input_dict == InjectPath(r.value, file_path) IN
         IF check_first
         THEN LET c == CheckInput(h, input_dict, TRUE) IN
              IF c.outcome # "return" THEN Skip(c.outcome)
              ELSE [outcome |-> "return", append |-> c.value, record |-> input_dict]
         ELSE [outcome |-> "return", append |-> TRUE, record |-> input_dict]

\* The loop as it would be if an exception were held back until every path
\* had been tried.
RECURSIVE LoadLoopNotStopping(_, _, _, _, _)
LoadLoopNotStopping(h, paths, check_first, i, dicts) ==
    IF i > Len(paths)
    THEN [outcome |-> "return", dicts |-> dicts, failed_at |-> 0, opened |-> <<>>]
    ELSE LET r == LoadFile(h, paths[i], check_first)
             rest == LoadLoopNotStopping(h, paths, check_first, i + 1,
                        IF r.append THEN Append(dicts, r.record) ELSE dicts)
         IN  IF r.outcome # "return"
             THEN [rest EXCEPT !.outcome = r.outcome, !.failed_at = i,
                               !.opened = <<paths[i]>> \o @]
             ELSE [rest EXCEPT !.opened = <<paths[i]>> \o @]

\* The for loop, from the i-th path on, with `dicts` the list so far.  An
\* exception leaves the loop at once.  The result carries the list, the
\* exception raised if any with the position of the path that raised it, and
\* the paths open() was called on.
RECURSIVE LoadLoop(_, _, _, _, _)
LoadLoop(h, paths, check_first, i, dicts) ==
    IF i > Len(paths)
    THEN [outcome |-> "return", dicts |-> dicts, failed_at |-> 0, opened |-> <<>>]
    ELSE LET r == LoadFile(h, paths[i], check_first) IN
         IF r.outcome # "return"
         THEN [outcome |-> r.outcome, dicts |-> dicts, failed_at |-> i,
               opened |-> <<paths[i]>>]
         ELSE LET rest == LoadLoop(h, paths, check_first, i + 1,
                             IF r.append THEN Append(dicts, r.record) ELSE dicts)
              IN  [rest EXCEPT !.opened = <<paths[i]>> \o @]

\* The return statement as it would be if it counted this call's records.
ReturnCountOfThisCall(dicts, before) == Len(dicts) - Len(before)

\* return len(self.input_dicts)
ReturnValue(dicts, before) == Len(dicts)

\* load_input_files as it would be if a failing call put the list back as
\* it found it.
RunLoadRollingBack(h, paths, check_first) ==
    LET r == LoadLoop(h, paths, check_first, 1, SelfInputDicts(h)) IN
    IF r.outcome = "return" THEN r
    ELSE [r EXCEPT !.dicts = SelfInputDicts(h)]

\* The body of load_input_files up to its return statement, run on the list
\* `self.input_dicts` denotes.
RunLoad(h, paths, check_first) ==
    LoadLoop(h, paths, check_first, 1, SelfInputDicts(h))

\* ----------------------------------------------------------------- actions
\* The paths of InputPaths whose file load_input_files cannot read into a
\* record.
Unloadable == { <<"list.json">>, <<"broken.json">>, <<"missing.json">> }

\* The path lists a caller passes: up to MaxPaths paths, none of them twice,
\* at most one of them unloadable.
PathLists ==
    { l \in UNION { [1..n -> InputPaths] : n \in 0..MaxPaths } :
        /\ \A i, j \in 1..Len(l) : l[i] = l[j] => i = j
        /\ \A i, j \in 1..Len(l) : (l[i] \in Unloadable /\ l[j] \in Unloadable) => i = j }

\* Documents handed directly to check_input / validate_dict_against_schema.
Instances ==
    { GoodDoc, OtherDoc, BadDoc, ArrayDoc, Obj(EmptyMembers),
      InjectPath(GoodDoc, <<"good.json">>), InjectPath(BadDoc, <<".", "bad.json">>) }

Schemas == { SchemaReqName, SchemaReqPath, SchemaClosed, SchemaEmpty }

\* h = InputHandler(schema_file_path).  Instances are named in the order
\* they are created.
Construct(h, schema_file_path) ==
    /\ h \notin constructed
    /\ h = "B" => "A" \in constructed
    /\ LET r == IF schema_file_path # NoPath
                THEN LoadSchema(schema_file_path)
                ELSE Returned(NoneValue)
       IN  /\ constructed' = IF r.outcome = "return" THEN constructed \cup {h}
                             ELSE constructed
           /\ schema' = IF r.outcome = "return" /\ schema_file_path # NoPath
                        THEN [schema EXCEPT ![h] = r.value]
                        ELSE schema
           /\ last' = [NoCall EXCEPT !.op = "construct", !.h = h,
                                     !.outcome = r.outcome, !.paths = schema_file_path,
                                     !.before = SelfInputDicts(h)]
    /\ UNCHANGED input_dicts

\* h.load_input_files(paths, check_first)
LoadInputFiles(h, paths, check_first) ==
    /\ h \in constructed
    /\ Len(SelfInputDicts(h)) + Len(paths) <= MaxRecords
    /\ \E r \in {RunLoad(h, paths, check_first)} :
       /\ input_dicts' = r.dicts
       /\ last' = [NoCall EXCEPT !.op = "load", !.h = h, !.outcome = r.outcome,
                     !.value = IF r.outcome = "return"
                               THEN ReturnValue(r.dicts, SelfInputDicts(h)) ELSE 0,
                     !.paths = paths, !.check_first = check_first,
                     !.failed_at = r.failed_at, !.opened = r.opened,
                     !.before = SelfInputDicts(h)]
    /\ UNCHANGED <<constructed, schema>>

\* h.check_input(input_dict, raise_failure)
DoCheckInput(h, input_dict, raise_failure) ==
    /\ h \in constructed
    /\ LET r == CheckInput(h, input_dict, raise_failure) IN
       last' = [NoCall EXCEPT !.op = "check", !.h = h, !.outcome = r.outcome,
                  !.flag = r.value, !.arg = input_dict, !.arg_schema = schema[h],
                  !.raise_failure = raise_failure, !.before = SelfInputDicts(h)]
    /\ UNCHANGED <<constructed, schema, input_dicts>>

\* InputHandler.validate_dict_against_schema(input_dict, s, raise_failure)
DoValidate(input_dict, s, raise_failure) ==
    /\ LET r == ValidateDictAgainstSchema(input_dict, s, raise_failure) IN
       last' = [NoCall EXCEPT !.op = "validate", !.outcome = r.outcome,
                  !.flag = r.value, !.arg = input_dict, !.arg_schema = s,
                  !.raise_failure = raise_failure]
    /\ UNCHANGED <<constructed, schema, input_dicts>>

Next ==
    \/ \E h \in Handlers, p \in SchemaPaths : Construct(h, p)
    \/ \E h \in Handlers, paths \in PathLists, c \in BOOLEAN :
          LoadInputFiles(h, paths, c)

Spec == Init /\ [][Next]_vars

\* The same program driven with one-file loads and direct check_input calls.
NextCheck ==
    \/ \E h \in Handlers, p \in MoreSchemaPaths : Construct(h, p)
    \/ \E h \in Handlers, p \in InputPaths, c \in BOOLEAN :
          LoadInputFiles(h, <<p>>, c)
    \/ \E h \in Handlers, d \in Instances, rf \in BOOLEAN : DoCheckInput(h, d, rf)

SpecCheck == Init /\ [][NextCheck]_vars

\* A second specification for the static validate_dict_against_schema: the
\* arguments of a call are drawn first, then the call is made.
InitValidate ==
    /\ constructed = {}
    /\ schema = [h \in Handlers |-> NoneValue]
    /\ input_dicts = <<>>
    /\ \E d \in Instances, s \in Schemas, rf \in BOOLEAN :
          last = [NoCall EXCEPT !.op = "pending", !.arg = d, !.arg_schema = s,
                                !.raise_failure = rf]

NextValidate ==
    /\ last.op = "pending"
    /\ DoValidate(last.arg, last.arg_schema, last.raise_failure)

SpecValidate == InitValidate /\ [][NextValidate]_vars

\* ------------------------------------------------------------------ claims
Conforms(d, s) == JsonschemaValidate(d, s) = "return"

\* The file at p exists and is JSON text.
Parseable(p) == Exists(p) /\ Disk[Resolve(p)].kind = "json"

\* The file at p exists and parses to a JSON object.
ParsesToObject(p) == Parseable(p) /\ Disk[Resolve(p)].value.type = "object"

\* The record the file at p gives: its parsed content with "path" set.
RecordOf(p) == InjectPath(Disk[Resolve(p)].value, p)

RecordsOf(paths, n) == [i \in 1..n |-> RecordOf(paths[i])]

IsPrefix(a, b) == Len(a) <= Len(b) /\ SubSeq(b, 1, Len(a)) = a

\* Whether a handler holding s (NoneValue: no schema) keeps the record of p.
Keeps(s, check_first, p) ==
    ~check_first \/ (Truthy(s) /\ Conforms(RecordOf(p), s))

\* The records of the first n paths that the handler keeps, in path order.
RECURSIVE KeptRecords(_, _, _, _)
KeptRecords(s, check_first, paths, n) ==
    IF n = 0 THEN <<>>
    ELSE LET rest == KeptRecords(s, check_first, paths, n - 1) IN
         IF Keeps(s, check_first, paths[n])
         THEN Append(rest, RecordOf(paths[n]))
         ELSE rest

IsLoad == last.op = "load"
Failed == last.outcome # "return"

\* C1: a call never removes or reorders the records it found, and every
\* record a call with check_first = true appends conforms to the schema its
\* handler holds (and the handler holds one): a record that was checked and
\* failed is never in the sequence.  Every record of the sequence was
\* appended by some call, so each was appended unchecked or passed its check.
C1_OnlyUncheckedOrValid ==
    IsLoad =>
        /\ IsPrefix(last.before, SelfInputDicts(last.h))
        /\ last.check_first =>
              \A i \in (Len(last.before) + 1)..Len(SelfInputDicts(last.h)) :
                  /\ Truthy(schema[last.h])
                  /\ Conforms(SelfInputDicts(last.h)[i], schema[last.h])

\* A checked call appended a record and then rejected a file, on top of an
\* unchecked record that fails the handler's schema.
C1_Witness ==
    /\ IsLoad /\ last.check_first /\ last.outcome = "ValidationError"
    /\ Len(input_dicts) > Len(last.before)
    /\ \E j \in 1..Len(last.before) : ~Conforms(last.before[j], schema[last.h])

\* The paths hold exactly one file whose record fails s, at position k, and
\* every other file parses to an object whose record conforms to s.
OneBadAt(paths, s, k) ==
    /\ k \in 1..Len(paths)
    /\ \A i \in 1..Len(paths) :
          /\ ParsesToObject(paths[i])
          /\ Conforms(RecordOf(paths[i]), s) <=> i # k

C2_Case ==
    /\ IsLoad /\ last.check_first /\ Truthy(schema[last.h])
    /\ \E k \in 1..Len(last.paths) : OneBadAt(last.paths, schema[last.h], k)

\* C2 as stated: with check_first = true and one non-conforming file among
\* conforming ones, the call raises the validation error and the sequence
\* after the call is the sequence before it.
C2_NothingStored ==
    C2_Case =>
        /\ last.outcome = "ValidationError"
        /\ SelfInputDicts(last.h) = last.before

\* C2 amended: the call raises the validation error and the sequence after
\* the call is the sequence before it followed by the records of the files
\* that precede the non-conforming one.
C2_PrefixStored ==
    C2_Case =>
        /\ last.outcome = "ValidationError"
        /\ \E k \in 1..Len(last.paths) :
              /\ OneBadAt(last.paths, schema[last.h], k)
              /\ SelfInputDicts(last.h) = last.before \o RecordsOf(last.paths, k - 1)

\* The non-conforming file is second, after a conforming one, and records of
\* an earlier call are present.
C2_Witness ==
    /\ C2_Case
    /\ OneBadAt(last.paths, schema[last.h], 2)
    /\ Len(last.before) > 0

\* The number of records a normally returning call appends.
AppendedCount(s, check_first, paths) ==
    Cardinality({ i \in 1..Len(paths) : Keeps(s, check_first, paths[i]) })

\* C3: a call that returns normally returns the length of the accumulated
\* sequence after the call; when it directly follows another normally
\* returning call on the same handler, that is the earlier call's return
\* value plus the number of records this call appended.
C3_ReturnsTotal ==
    [][ (last'.op = "load" /\ last'.outcome = "return") =>
           /\ last'.value = Len(SelfInputDicts(last'.h)')
           /\ (IsLoad /\ ~Failed /\ last.h = last'.h) =>
                 last'.value = last.value
                     + AppendedCount(schema[last'.h], last'.check_first, last'.paths)
      ]_vars

\* A call returned more than the number of files it was given.
C3_Witness ==
    /\ IsLoad /\ ~Failed
    /\ Len(last.paths) > 0
    /\ Len(last.before) > 0
    /\ last.value = Len(last.before) + Len(last.paths)
    /\ last.value > Len(last.paths)

\* C4: the first call on a newly constructed handler that holds a schema,
\* with check_first = true and N files whose records conform, returns N and
\* the handler's sequence is then exactly the N records, in path order, each
\* with "path" the resolved path of its file.
C4_FreshHandlerHoldsN ==
    [][ ( /\ last.op = "construct" /\ last.outcome = "return"
          /\ Truthy(schema[last.h])
          /\ last'.op = "load" /\ last'.h = last.h /\ last'.check_first
          /\ \A i \in 1..Len(last'.paths) :
                /\ ParsesToObject(last'.paths[i])
                /\ Conforms(RecordOf(last'.paths[i]), schema[last.h]) )
        =>
        ( /\ last'.outcome = "return"
          /\ last'.value = Len(last'.paths)
          /\ SelfInputDicts(last.h)' = RecordsOf(last'.paths, Len(last'.paths))
          /\ \A i \in 1..Len(last'.paths) :
                SelfInputDicts(last.h)'[i].members.path = Resolve(last'.paths[i]) )
      ]_vars

\* What a claim asks of the file at p: that it parses, or that it parses to
\* an object.
Readable(p, objects_only) == IF objects_only THEN ParsesToObject(p) ELSE Parseable(p)

C5_Case(objects_only) ==
    /\ IsLoad /\ ~last.check_first
    /\ \A i \in 1..Len(last.paths) : Readable(last.paths[i], objects_only)

C5_AllStored ==
    /\ last.outcome = "return"
    /\ SelfInputDicts(last.h) = last.before \o RecordsOf(last.paths, Len(last.paths))

\* C5 as stated: with check_first = false, N existing parseable files are all
\* appended, in path order, and nothing is raised.
C5_ParseableAllStored == C5_Case(FALSE) => C5_AllStored

\* C5 amended: with check_first = false, N existing files that parse to JSON
\* objects are all appended, in path order, whether or not they conform and
\* whether or not the handler holds a schema, and nothing is raised.
C5_ObjectsAllStored == C5_Case(TRUE) => C5_AllStored

\* Two files were appended unchecked by a handler whose schema one of them
\* fails.
C5_Witness ==
    /\ C5_Case(TRUE)
    /\ Len(last.paths) = 2
    /\ Truthy(schema[last.h])
    /\ \E i \in 1..2 : ~Conforms(RecordOf(last.paths[i]), schema[last.h])
    /\ \E i \in 1..2 : Conforms(RecordOf(last.paths[i]), schema[last.h])

\* C6: on a handler that holds no schema, check_input returns false and
\* raises nothing, for every record and both values of raise_failure, and
\* the schema and the accumulated sequence are as before the call.
C6_NoSchemaReturnsFalse ==
    (last.op = "check" /\ ~Truthy(last.arg_schema)) =>
        /\ last.outcome = "return"
        /\ last.flag = FALSE
        /\ schema[last.h] = last.arg_schema
        /\ SelfInputDicts(last.h) = last.before

\* check_input was called with raise_failure on a schema-less handler whose
\* sequence is not empty.
C6_Witness ==
    /\ last.op = "check" /\ ~Truthy(schema[last.h])
    /\ last.raise_failure
    /\ last.arg = BadDoc
    /\ Len(input_dicts) > 0

\* C7: validate_dict_against_schema with raise_failure = true raises the
\* validation error exactly when the record does not conform and otherwise
\* returns true; with raise_failure = false it never raises and returns
\* whether the record conforms.
C7_RaiseOrReturn ==
    last.op = "validate" =>
        LET ok == Conforms(last.arg, last.arg_schema) IN
        /\ last.raise_failure =>
              /\ last.outcome = "ValidationError" <=> ~ok
              /\ ok => (last.outcome = "return" /\ last.flag = TRUE)
        /\ ~last.raise_failure =>
              /\ last.outcome = "return"
              /\ last.flag = ok

\* A non-conforming record was validated with raise_failure = true.
C7_Witness ==
    /\ last.op = "validate"
    /\ last.raise_failure
    /\ ~Conforms(last.arg, last.arg_schema)

\* C8: a call that fails at its k-th path has opened the first k paths and
\* no other, and leaves the sequence as it was before the call followed by
\* the records of paths 1..k-1 it appended, in order; every call leaves the
\* earlier records in place.
C8_FailureKeepsPrefix ==
    IsLoad =>
        /\ IsPrefix(last.before, SelfInputDicts(last.h))
        /\ Failed =>
              /\ last.failed_at \in 1..Len(last.paths)
              /\ last.opened = SubSeq(last.paths, 1, last.failed_at)
              /\ SelfInputDicts(last.h) =
                    last.before \o KeptRecords(schema[last.h], last.check_first,
                                               last.paths, last.failed_at - 1)

\* A call failed at its second path after appending its first, on top of
\* records of an earlier call.
C8_Witness ==
    /\ IsLoad /\ Failed
    /\ last.failed_at = 2
    /\ Len(last.before) > 0
    /\ Len(input_dicts) = Len(last.before) + 1

\* C9: a load through one handler leaves every other handler's sequence
\* unchanged, and a newly constructed handler starts with an empty sequence.
C9_PerInstanceSequence ==
    [][ /\ \A b \in constructed :
              (last'.op = "load" /\ last'.h # b) =>
                  SelfInputDicts(b)' = SelfInputDicts(b)
        /\ (last'.op = "construct" /\ last'.outcome = "return") =>
              SelfInputDicts(last'.h)' = <<>>
      ]_vars

C10_Case(objects_only) ==
    /\ IsLoad /\ last.check_first /\ ~Truthy(schema[last.h])
    /\ \A i \in 1..Len(last.paths) : Readable(last.paths[i], objects_only)

C10_NothingAppended ==
    /\ last.outcome = "return"
    /\ SelfInputDicts(last.h) = last.before
    /\ last.value = Len(last.before)

\* C10 as stated: on a handler without a schema, a checked load of existing
\* parseable files raises nothing, appends nothing and returns the unchanged
\* length.
C10_ParseableSkipped == C10_Case(FALSE) => C10_NothingAppended

\* C10 amended: on a handler without a schema, a checked load of existing
\* files that parse to JSON objects raises nothing, appends nothing and
\* returns the unchanged length.
C10_ObjectsSkipped == C10_Case(TRUE) => C10_NothingAppended

\* Two object files were skipped by a schema-less handler whose sequence
\* already held a record.
C10_Witness ==
    /\ C10_Case(TRUE)
    /\ Len(last.paths) = 2
    /\ Len(last.before) > 0
    /\ ~Failed

====
